---- MODULE Spec2Model ----
(***************************************************************************)
(* Model of the POST /migrate handler of relisten-realm-migrator           *)
(* (src/index.js): the temporary input file, the two read-only open        *)
(* attempts, the extraction try block, close, the response and the         *)
(* finally cleanup.                                                        *)
(*                                                                         *)
(* Strings that the handler transforms (identifiers) are sequences of      *)
(* UTF-16 code units, so that toLowerCase and the default Array sort are   *)
(* computed as JavaScript computes them.  Messages and table names are     *)
(* never transformed and are kept as TLA+ strings.                         *)
(***************************************************************************)
EXTENDS Integers, Sequences, FiniteSets, TLC

(***************************************************************************)
(* Bounds of the model.                                                    *)
(***************************************************************************)
MaxFav == 2        \* records per favorites table
MaxSources == 1    \* records in the FavoritedSource table
MaxOffline == 2    \* records in the OfflineTrack table

(***************************************************************************)
(* Identifiers as code-unit sequences.                                     *)
(***************************************************************************)
uA == <<65>>                 \* "A"
uB == <<66>>                 \* "B"
ua == <<97>>                 \* "a"
ub == <<98>>                 \* "b"
uaB == <<97, 66>>            \* "aB"
uS == <<83>>                 \* "S"
us == <<115>>                \* "s"
ut == <<116>>                \* "t"
uU == <<85>>                 \* "U"
uv == <<118>>                \* "v"
\* "constructor": a key every object literal inherits from Object.prototype
uconstructor == <<99, 111, 110, 115, 116, 114, 117, 99, 116, 111, 114>>
\* "Constructor"
uConstructor == <<67, 111, 110, 115, 116, 114, 117, 99, 116, 111, 114>>
\* "__proto__"
uproto == <<95, 95, 112, 114, 111, 116, 111, 95, 95>>

\* String.prototype.toLowerCase on one code unit (ASCII range of the pools)
LowerUnit(c) == IF c >= 65 /\ c <= 90 THEN c + 32 ELSE c

\* String.prototype.toLowerCase
toLowerCase(s) == [i \in DOMAIN s |-> LowerUnit(s[i])]

\* a < b in the order of Array.prototype.sort() without a comparator:
\* code unit by code unit, a proper prefix first
RECURSIVE StrLess(_, _)
StrLess(a, b) ==
    IF b = <<>> THEN FALSE
    ELSE IF a = <<>> THEN TRUE
    ELSE IF Head(a) < Head(b) THEN TRUE
    ELSE IF Head(a) > Head(b) THEN FALSE
    ELSE StrLess(Tail(a), Tail(b))

RECURSIVE InsertSorted(_, _)
InsertSorted(x, s) ==
    IF s = <<>> THEN <<x>>
    ELSE IF StrLess(x, Head(s)) THEN <<x>> \o s
    ELSE <<Head(s)>> \o InsertSorted(x, Tail(s))

\* Array.prototype.sort() on a list of strings
RECURSIVE sort(_)
sort(s) == IF s = <<>> THEN <<>> ELSE InsertSorted(Head(s), sort(Tail(s)))

(***************************************************************************)
(* The schema catalog and the uploaded database file.                      *)
(***************************************************************************)
\* the object types of the schema list passed to the first open
SchemaNames ==
    {"FavoritedArtist", "FavoritedShow", "FavoritedSource", "FavoritedTrack",
     "RecentlyPlayedTrack", "OfflineTrack", "OfflineSource"}

\* OfflineTrackState.DOWNLOADED
DOWNLOADED == 3

\* (variant) the offline tracks are read before the favorites
ReadOrderOfflineFirst ==
    <<"OfflineTrack", "FavoritedTrack", "FavoritedShow", "FavoritedSource",
      "FavoritedArtist">>

\* the object types the handler reads, in the order of the try block
ReadOrder ==
    <<"FavoritedTrack", "FavoritedShow", "FavoritedSource", "FavoritedArtist",
      "OfflineTrack">>

Kinds == {ReadOrder[i] : i \in DOMAIN ReadOrder}

\* lists of at most n records of pool, no two with the same primary key
SeqsByKey(pool, primaryKey, n) ==
    UNION {{s \in [1..k -> pool] :
              \A i, j \in 1..k : i # j => s[i][primaryKey] # s[j][primaryKey]}
           : k \in 0..n}

PkUuid == "uuid"
PkTrackUuid == "track_uuid"

\* stored records (primary keys are case sensitive in the store)
TrackPool == {[uuid |-> u] : u \in {uA, ua, uB}}
ShowPool == {[uuid |-> u] : u \in {uB, ua}}
ArtistPool == {[uuid |-> u] : u \in {uB, uaB}}
SourcePool ==
    {[uuid |-> uS, created_at |-> 11, artist_uuid |-> uA, show_uuid |-> uB,
      show_date |-> 12]}
\* file_size is optional: <<>> is null, <<n>> the integer n
OfflineRec(t, s, st, fs) ==
    [track_uuid |-> t, artist_uuid |-> uA, show_uuid |-> uB, source_uuid |-> s,
     created_at |-> 13, state |-> st, file_size |-> fs]
OfflinePool ==
    {OfflineRec(ut, uS, 3, <<5242880>>), OfflineRec(uU, us, 3, <<>>),
     OfflineRec(uU, uS, 1, <<>>), OfflineRec(ut, us, 4, <<7>>),
     OfflineRec(uv, uConstructor, 3, <<>>)}

\* a file that is no database at all
Garbage ==
    [valid |-> FALSE, tables |-> {}, schemaVersion |-> 0, FavoritedTrack |-> <<>>,
     FavoritedShow |-> <<>>, FavoritedSource |-> <<>>, FavoritedArtist |-> <<>>,
     OfflineTrack |-> <<>>]

Contents(tables, name, all) == IF name \in tables THEN all ELSE {<<>>}

\* database files: a table that is absent from the embedded schema has no rows
Databases ==
    UNION {
      [valid : {TRUE}, tables : {tables}, schemaVersion : {9},
       FavoritedTrack :
         Contents(tables, "FavoritedTrack", SeqsByKey(TrackPool, PkUuid, MaxFav)),
       FavoritedShow :
         Contents(tables, "FavoritedShow", SeqsByKey(ShowPool, PkUuid, MaxFav)),
       FavoritedSource :
         Contents(tables, "FavoritedSource",
                  SeqsByKey(SourcePool, PkUuid, MaxSources)),
       FavoritedArtist :
         Contents(tables, "FavoritedArtist", SeqsByKey(ArtistPool, PkUuid, MaxFav)),
       OfflineTrack :
         Contents(tables, "OfflineTrack",
                  SeqsByKey(OfflinePool, PkTrackUuid, MaxOffline))]
      : tables \in {SchemaNames \ m : m \in SUBSET SchemaNames}}

Files == Databases \cup {Garbage}

(***************************************************************************)
(* Extraction, normalization and aggregation (pure parts of the handler).  *)
(***************************************************************************)
\* an optional value: <<>> is null/undefined, <<v>> is the value v
None == <<>>
Some(v) == <<v>>

UuidLower(o) == toLowerCase(o.uuid)

RawUuid(o) == o.uuid

\* (variant) sorted as stored, lowercased afterwards
FavoriteUuidsSortFirst(objs) ==
    LET sorted == sort([i \in DOMAIN objs |-> RawUuid(objs[i])])
    IN [i \in DOMAIN sorted |-> toLowerCase(sorted[i])]

\* Array.from(objects).map((o) => o.uuid.toLowerCase()).sort()
FavoriteUuids(objs) == sort([i \in DOMAIN objs |-> UuidLower(objs[i])])

\* the record built for one FavoritedSource
NormalizeSource(o) ==
    [uuid |-> toLowerCase(o.uuid), created_at |-> o.created_at,
     artist_uuid |-> toLowerCase(o.artist_uuid),
     show_uuid |-> toLowerCase(o.show_uuid), show_date |-> o.show_date]

FavoriteSources(objs) == [i \in DOMAIN objs |-> NormalizeSource(objs[i])]

\* the record built for one OfflineTrack
NormalizeOffline(o) ==
    [track_uuid |-> toLowerCase(o.track_uuid),
     artist_uuid |-> toLowerCase(o.artist_uuid),
     show_uuid |-> toLowerCase(o.show_uuid),
     source_uuid |-> toLowerCase(o.source_uuid), created_at |-> o.created_at,
     state |-> o.state, file_size |-> o.file_size]

\* (variant) every state from DOWNLOADED on passes the filter
IsDownloadedOrLater(o) == o.state >= DOWNLOADED

IsDownloaded(o) == o.state = DOWNLOADED

\* Array.from(offlineTracks).filter(state === DOWNLOADED).map(...)
downloadedTracks(objs) ==
    LET kept == SelectSeq(objs, IsDownloaded)
    IN [i \in DOMAIN kept |-> NormalizeOffline(kept[i])]

\* keys that result = {} already answers with a truthy inherited value, so
\* that `!result[key]` is false and result[key].push is not a function
\* (the lowercase property names of Object.prototype)
InheritedKeys == {uconstructor, uproto}

EmptyMap == [k \in {} |-> <<>>]

\* the loop of aggregateBy from the partial result on; threw = a TypeError
\* (a key selector is the name of the field it returns)
RECURSIVE AggregateFrom(_, _, _)
AggregateFrom(items, keySelector, result) ==
    IF items = <<>> THEN [threw |-> FALSE, value |-> result]
    ELSE LET item == Head(items)
             key == item[keySelector]
         IN IF key \in DOMAIN result
            THEN AggregateFrom(Tail(items), keySelector,
                               [result EXCEPT ![key] = Append(@, item)])
            ELSE IF key \in InheritedKeys
            THEN [threw |-> TRUE, value |-> result]
            ELSE AggregateFrom(Tail(items), keySelector,
                               [k \in DOMAIN result \cup {key} |->
                                  IF k = key THEN <<item>> ELSE result[k]])

aggregateBy(items, keySelector) == AggregateFrom(items, keySelector, EmptyMap)

\* (t) => t.source_uuid
SourceUuidOf == "source_uuid"

\* realm.objects(name) throws when the opened realm's schema has no such
\* object type (a realm opened with the full schema has all of them)
ObjectsThrows(file, name) == name \notin file.tables

Position(name) == CHOOSE i \in DOMAIN ReadOrder : ReadOrder[i] = name

\* the statements for `name` run to their end: no read up to and including
\* this one has thrown out of the try block
Reached(file, name) ==
    \A j \in 1..Position(name) : ~ObjectsThrows(file, ReadOrder[j])

\* legacyData as first created
InitialData(schemaVersion) ==
    [trackUuids |-> <<>>, showUuids |-> <<>>, sources |-> <<>>,
     artistUuids |-> <<>>, offlineTracksBySource |-> EmptyMap,
     schemaVersion |-> schemaVersion]

\* the extraction try block with its catch: legacyData afterwards
ExtractData(file, data) ==
    LET agg == aggregateBy(downloadedTracks(file.OfflineTrack), SourceUuidOf)
    IN [data EXCEPT
          !.trackUuids =
              IF Reached(file, "FavoritedTrack")
              THEN FavoriteUuids(file.FavoritedTrack) ELSE @,
          !.showUuids =
              IF Reached(file, "FavoritedShow")
              THEN FavoriteUuids(file.FavoritedShow) ELSE @,
          !.sources =
              IF Reached(file, "FavoritedSource")
              THEN FavoriteSources(file.FavoritedSource) ELSE @,
          !.artistUuids =
              IF Reached(file, "FavoritedArtist")
              THEN FavoriteUuids(file.FavoritedArtist) ELSE @,
          !.offlineTracksBySource =
              IF Reached(file, "OfflineTrack") /\ ~agg.threw
              THEN agg.value ELSE @]

\* (variant) isEmpty without the sources term
IsEmptyFlagNoSources(data) ==
    ~(\/ Len(data.trackUuids) > 0
      \/ Len(data.showUuids) > 0
      \/ Len(data.artistUuids) > 0
      \/ Cardinality(DOMAIN data.offlineTracksBySource) > 0)

\* the isEmpty expression of the success response
IsEmptyFlag(data) ==
    ~(\/ Len(data.trackUuids) > 0
      \/ Len(data.showUuids) > 0
      \/ Len(data.sources) > 0
      \/ Len(data.artistUuids) > 0
      \/ Cardinality(DOMAIN data.offlineTracksBySource) > 0)

SuccessResponse(data) ==
    [status |-> 200,
     body |-> [success |-> TRUE, data |-> data, isEmpty |-> IsEmptyFlag(data)]]

MissingInputResponse ==
    [status |-> 400, body |-> [error |-> "Database file is required"]]

UnreadableResponse ==
    [status |-> 400,
     body |-> [error |-> "Unable to read database or unsupported version"]]

\* the response of the outer catch for a thrown error with this message
FailedResponse(message) ==
    [status |-> 500,
     body |-> [error |-> "Database parsing failed", details |-> message]]

(***************************************************************************)
(* The store library as the handler sees it.                               *)
(***************************************************************************)
\* new Realm({path, readOnly: true, schema: [...]}) returns a handle: the
\* file is a database and embeds every declared object type
FullSchemaOpens(file) == file.valid /\ SchemaNames \subseteq file.tables

\* new Realm({path, readOnly: true}) returns a handle: the file is a database
SchemalessOpens(file) == file.valid

(***************************************************************************)
(* One invocation of the POST /migrate handler.                            *)
(***************************************************************************)
VARIABLES
    pc,             \* the statement the invocation is at
    form,           \* "unparsed", "rejected", "empty" (no 'database') or "file"
    tempInputPath,  \* None (null) or Some(path)
    disk,           \* the temporary file: None (absent) or Some(file)
    realm,          \* "none", "open" or "closed": the handle of this invocation
    legacyData,     \* None until created, then Some(record)
    thrown,         \* None, or Some(error) on its way to the outer catch
    response,       \* None until a c.json(...) value is to be returned
    log             \* the calls made on the file system and the store, in order

\* The handler's variables above are the locals of the invocation that runs
\* (disk is shared by every invocation that computed the same path).  For
\* several invocations in one process:
VARIABLES
    self,           \* the invocation that runs
    parked,         \* None, or Some(locals) of the invocation that does not run
    databaseBuffer, \* None, or Some(file): the bytes this invocation uploaded
    holders         \* the invocations with an open handle on the file at the path

cvars == <<self, parked, databaseBuffer, holders>>

vars ==
    <<pc, form, tempInputPath, disk, realm, legacyData, thrown, response, log,
      self, parked, databaseBuffer, holders>>

TempPath == "realm_input_<timestamp>.realm"

Error(message) == [isError |-> TRUE, message |-> message]

Init ==
    /\ pc = "formData"
    /\ form = "unparsed"
    /\ tempInputPath = None
    /\ disk = None
    /\ realm = "none"
    /\ legacyData = None
    /\ thrown = None
    /\ response = None
    /\ log = <<>>
    /\ self = 1
    /\ parked = None
    /\ databaseBuffer = None
    /\ holders = {}

\* await c.req.formData() rejects
FormDataThrows ==
    /\ pc = "formData"
    /\ form' = "rejected"
    /\ thrown' = Some(Error("formData failed"))
    /\ pc' = "catch"
    /\ UNCHANGED <<tempInputPath, disk, realm, legacyData, response, log>>

\* await c.req.formData() resolves, with or without a 'database' entry
FormDataResolves ==
    /\ pc = "formData"
    /\ form' \in {"empty", "file"}
    /\ pc' = "checkFile"
    /\ UNCHANGED <<tempInputPath, disk, realm, legacyData, thrown, response, log>>

\* (variant) the missing file is not checked for: the handler goes on
MissingInputUnchecked ==
    /\ pc = "checkFile"
    /\ form = "empty"
    /\ tempInputPath' = Some(TempPath)
    /\ pc' = "arrayBuffer"
    /\ UNCHANGED <<form, disk, realm, legacyData, thrown, response, log>>

\* if (!databaseFile) return 400
MissingInput ==
    /\ pc = "checkFile"
    /\ form = "empty"
    /\ response' = Some(MissingInputResponse)
    /\ pc' = "finally"
    /\ UNCHANGED <<form, tempInputPath, disk, realm, legacyData, thrown, log>>

\* the form has a file: the temporary path is assigned, then the handler
\* awaits databaseFile.arrayBuffer()
AssignTempPath ==
    /\ pc = "checkFile"
    /\ form = "file"
    /\ tempInputPath' = Some(TempPath)
    /\ pc' = "arrayBuffer"
    /\ UNCHANGED <<form, disk, realm, legacyData, thrown, response, log>>

\* await databaseFile.arrayBuffer() rejects
ArrayBufferThrows ==
    /\ pc = "arrayBuffer"
    /\ thrown' = Some(Error("arrayBuffer failed"))
    /\ pc' = "catch"
    /\ UNCHANGED <<form, tempInputPath, disk, realm, legacyData, response, log>>

\* writeFileSync throws (an I/O error): nothing usable is on disk
WriteThrows ==
    /\ pc = "arrayBuffer"
    /\ log' = Append(log, "write:throws")
    /\ thrown' = Some(Error("write failed"))
    /\ pc' = "catch"
    /\ UNCHANGED <<form, tempInputPath, disk, realm, legacyData, response>>

\* the uploaded bytes arrive and writeFileSync stores them at the path
WriteTempFrom(files) ==
    /\ pc = "arrayBuffer"
    /\ \E file \in files : disk' = Some(file)
    /\ log' = Append(log, "write")
    /\ pc' = "openFull"
    /\ UNCHANGED <<form, tempInputPath, realm, legacyData, thrown, response>>

WriteTemp == WriteTempFrom(Files)

\* the first open returns a handle
OpenFullOk ==
    /\ pc = "openFull"
    /\ FullSchemaOpens(disk[1])
    /\ realm' = "open"
    /\ log' = Append(log, "openFull")
    /\ pc' = "schemaVersion"
    /\ UNCHANGED <<form, tempInputPath, disk, legacyData, thrown, response>>

\* (variant) no fallback: the first failure already answers Unreadable
OpenFullFailsNoFallback ==
    /\ pc = "openFull"
    /\ ~FullSchemaOpens(disk[1])
    /\ log' = Append(log, "openFull:throws")
    /\ response' = Some(UnreadableResponse)
    /\ pc' = "finally"
    /\ UNCHANGED <<form, tempInputPath, disk, realm, legacyData, thrown>>

\* the first open throws: its catch goes on to the schemaless open
OpenFullFails ==
    /\ pc = "openFull"
    /\ ~FullSchemaOpens(disk[1])
    /\ log' = Append(log, "openFull:throws")
    /\ pc' = "openSchemaless"
    /\ UNCHANGED <<form, tempInputPath, disk, realm, legacyData, thrown, response>>

\* the schemaless open returns a handle
OpenSchemalessOk ==
    /\ pc = "openSchemaless"
    /\ SchemalessOpens(disk[1])
    /\ realm' = "open"
    /\ log' = Append(log, "openSchemaless")
    /\ pc' = "schemaVersion"
    /\ UNCHANGED <<form, tempInputPath, disk, legacyData, thrown, response>>

\* the schemaless open throws too: 400 Unreadable
OpenSchemalessFails ==
    /\ pc = "openSchemaless"
    /\ ~SchemalessOpens(disk[1])
    /\ log' = Append(log, "openSchemaless:throws")
    /\ response' = Some(UnreadableResponse)
    /\ pc' = "finally"
    /\ UNCHANGED <<form, tempInputPath, disk, realm, legacyData, thrown>>

\* const schemaVersion = realm.schemaVersion; legacyData is created
ReadSchemaVersion ==
    /\ pc = "schemaVersion"
    /\ legacyData' = Some(InitialData(disk[1].schemaVersion))
    /\ pc' = "extract"
    /\ UNCHANGED <<form, tempInputPath, disk, realm, thrown, response, log>>

\* an error is thrown after the open and before the extraction try block
SchemaVersionThrows ==
    /\ pc = "schemaVersion"
    /\ thrown' = Some(Error("schemaVersion failed"))
    /\ pc' = "catch"
    /\ UNCHANGED <<form, tempInputPath, disk, realm, legacyData, response, log>>

\* (variant) no inner catch: a failed read reaches the outer catch
ExtractPropagates ==
    /\ pc = "extract"
    /\ IF \E name \in Kinds : ObjectsThrows(disk[1], name)
       THEN /\ thrown' = Some(Error("read failed"))
            /\ pc' = "catch"
            /\ UNCHANGED legacyData
       ELSE /\ legacyData' = Some(ExtractData(disk[1], legacyData[1]))
            /\ pc' = "close"
            /\ UNCHANGED thrown
    /\ UNCHANGED <<form, tempInputPath, disk, realm, response, log>>

\* the extraction try block and its catch (which only warns)
Extract ==
    /\ pc = "extract"
    /\ legacyData' = Some(ExtractData(disk[1], legacyData[1]))
    /\ pc' = "close"
    /\ UNCHANGED <<form, tempInputPath, disk, realm, thrown, response, log>>

\* realm.close()
Close ==
    /\ pc = "close"
    /\ realm' = "closed"
    /\ log' = Append(log, "close")
    /\ pc' = "respond"
    /\ UNCHANGED <<form, tempInputPath, disk, legacyData, thrown, response>>

\* return c.json({success: true, data: legacyData, isEmpty: ...})
Respond ==
    /\ pc = "respond"
    /\ response' = Some(SuccessResponse(legacyData[1]))
    /\ pc' = "finally"
    /\ UNCHANGED <<form, tempInputPath, disk, realm, legacyData, thrown, log>>

\* building the success response throws (the data cannot be serialized)
RespondThrows ==
    /\ pc = "respond"
    /\ thrown' = Some(Error("json failed"))
    /\ pc' = "catch"
    /\ UNCHANGED <<form, tempInputPath, disk, realm, legacyData, response, log>>

\* the outer catch: 500 with the error's message
Catch ==
    /\ pc = "catch"
    /\ response' =
         Some(FailedResponse(IF thrown[1].isError THEN thrown[1].message
                             ELSE "Unknown error"))
    /\ pc' = "finally"
    /\ UNCHANGED <<form, tempInputPath, disk, realm, legacyData, thrown, log>>

\* (variant) the cleanup may be skipped although a path was assigned
FinallySkipsUnlink ==
    /\ pc = "finally"
    /\ pc' = "done"
    /\ UNCHANGED <<form, tempInputPath, disk, realm, legacyData, thrown, response, log>>

\* finally: no temporary path was assigned, nothing to remove
FinallyNoPath ==
    /\ pc = "finally"
    /\ tempInputPath = None
    /\ pc' = "done"
    /\ UNCHANGED <<form, tempInputPath, disk, realm, legacyData, thrown, response, log>>

\* finally: unlinkSync(tempInputPath) removes the file
FinallyUnlink ==
    /\ pc = "finally"
    /\ tempInputPath # None
    /\ disk # None
    /\ disk' = None
    /\ log' = Append(log, "unlink")
    /\ pc' = "done"
    /\ UNCHANGED <<form, tempInputPath, realm, legacyData, thrown, response>>

\* finally: unlinkSync throws (there may be no such file); the error is ignored
FinallyUnlinkThrows ==
    /\ pc = "finally"
    /\ tempInputPath # None
    /\ log' = Append(log, "unlink:throws")
    /\ pc' = "done"
    /\ UNCHANGED <<form, tempInputPath, disk, realm, legacyData, thrown, response>>

Next ==
    \/ FormDataThrows
    \/ FormDataResolves
    \/ MissingInput
    \/ AssignTempPath
    \/ ArrayBufferThrows
    \/ WriteThrows
    \/ WriteTemp
    \/ OpenFullOk
    \/ OpenFullFails
    \/ OpenSchemalessOk
    \/ OpenSchemalessFails
    \/ ReadSchemaVersion
    \/ SchemaVersionThrows
    \/ Extract
    \/ Close
    \/ Respond
    \/ RespondThrows
    \/ Catch
    \/ FinallyNoPath
    \/ FinallyUnlink
    \/ FinallyUnlinkThrows

\* one invocation alone
Spec == Init /\ [][Next /\ UNCHANGED cvars]_vars

(***************************************************************************)
(* Two invocations in one process that computed the same temporary path    *)
(* (Date.now() gave both the same millisecond).  JavaScript runs one       *)
(* invocation at a time and leaves it only at an await: at                 *)
(* `await c.req.formData()` and at `await databaseFile.arrayBuffer()`.     *)
(***************************************************************************)
FullDatabase ==
    [valid |-> TRUE, tables |-> SchemaNames, schemaVersion |-> 9,
     FavoritedTrack |-> <<[uuid |-> uB], [uuid |-> ua]>>,
     FavoritedShow |-> <<>>, FavoritedSource |-> <<>>, FavoritedArtist |-> <<>>,
     OfflineTrack |-> <<OfflineRec(ut, uS, 3, <<5242880>>)>>]

OldDatabase ==
    [valid |-> TRUE, tables |-> SchemaNames \ {"OfflineTrack", "OfflineSource"},
     schemaVersion |-> 9, FavoritedTrack |-> <<[uuid |-> uA]>>,
     FavoritedShow |-> <<[uuid |-> uB]>>, FavoritedSource |-> <<>>,
     FavoritedArtist |-> <<>>, OfflineTrack |-> <<>>]

\* the uploads of the two invocations
ConcFiles == {FullDatabase, OldDatabase, Garbage}

\* the locals of the invocation that runs, as kept while it is suspended
Locals ==
    [pc |-> pc, form |-> form, tempInputPath |-> tempInputPath, realm |-> realm,
     legacyData |-> legacyData, thrown |-> thrown, response |-> response,
     log |-> log, databaseBuffer |-> databaseBuffer]

\* both requests have arrived and wait for their form data
ConcInit ==
    /\ pc = "formData"
    /\ form = "unparsed"
    /\ tempInputPath = None
    /\ disk = None
    /\ realm = "none"
    /\ legacyData = None
    /\ thrown = None
    /\ response = None
    /\ log = <<>>
    /\ self = 1
    /\ databaseBuffer = None
    /\ holders = {}
    /\ parked = Some(Locals)

\* a statement's effect on who has the file at the path open: a handle
\* stays open until realm.close(); once the file is unlinked, the path
\* names no file any handle is on; writeFileSync rewrites an existing file
\* in place.  The uploaded bytes are the ones the invocation writes.
Tracked ==
    /\ databaseBuffer' =
         IF pc = "arrayBuffer" /\ pc' = "openFull" THEN disk' ELSE databaseBuffer
    /\ holders' =
         IF disk # None /\ disk' = None THEN {}
         ELSE IF realm # "open" /\ realm' = "open" THEN holders \cup {self}
         ELSE IF realm = "open" /\ realm' = "closed" THEN holders \ {self}
         ELSE holders
    /\ UNCHANGED <<self, parked>>

\* the running invocation is at an await (or has returned) and the event
\* loop resumes the other one
Yield ==
    /\ pc \in {"formData", "arrayBuffer", "done"}
    /\ parked # None
    /\ parked[1].pc # "done"
    /\ parked' = Some(Locals)
    /\ self' = 3 - self
    /\ pc' = parked[1].pc
    /\ form' = parked[1].form
    /\ tempInputPath' = parked[1].tempInputPath
    /\ realm' = parked[1].realm
    /\ legacyData' = parked[1].legacyData
    /\ thrown' = parked[1].thrown
    /\ response' = parked[1].response
    /\ log' = parked[1].log
    /\ databaseBuffer' = parked[1].databaseBuffer
    /\ UNCHANGED <<disk, holders>>

\* both Date.now() calls fall in the same millisecond: no invocation gets to
\* its file work while the other has still to compute its path
SameMillisecond == parked[1].pc # "formData"

\* a statement of the invocation that runs, or a switch at an await
ConcNext ==
    \/ FormDataThrows /\ Tracked
    \/ FormDataResolves /\ Tracked
    \/ MissingInput /\ Tracked
    \/ AssignTempPath /\ Tracked
    \/ SameMillisecond /\ ArrayBufferThrows /\ Tracked
    \/ SameMillisecond /\ WriteThrows /\ Tracked
    \/ SameMillisecond /\ WriteTempFrom(ConcFiles) /\ Tracked
    \/ OpenFullOk /\ Tracked
    \/ OpenFullFails /\ Tracked
    \/ OpenSchemalessOk /\ Tracked
    \/ OpenSchemalessFails /\ Tracked
    \/ ReadSchemaVersion /\ Tracked
    \/ SchemaVersionThrows /\ Tracked
    \/ Extract /\ Tracked
    \/ Close /\ Tracked
    \/ Respond /\ Tracked
    \/ RespondThrows /\ Tracked
    \/ Catch /\ Tracked
    \/ FinallyNoPath /\ Tracked
    \/ FinallyUnlink /\ Tracked
    \/ FinallyUnlinkThrows /\ Tracked
    \/ Yield

ConcSpec == ConcInit /\ [][ConcNext]_vars

(***************************************************************************)
(* Vocabulary of the properties.                                           *)
(***************************************************************************)
Count(ev) == Cardinality({i \in DOMAIN log : log[i] = ev})

Opens == Count("openFull") + Count("openSchemaless")
Unlinks == Count("unlink") + Count("unlink:throws")

\* a response has been chosen and the temporary file is still there
Success == pc = "finally" /\ response # None /\ response[1].status = 200
File == disk[1]
Data == response[1].body.data

NonStrictSorted(s) == \A i \in 1..(Len(s) - 1) : ~StrLess(s[i + 1], s[i])
StrictSorted(s) == \A i \in 1..(Len(s) - 1) : StrLess(s[i], s[i + 1])

\* no two stored primary keys of the table are equal after lowercasing
CaseDistinct(objs) ==
    \A i, j \in DOMAIN objs :
        i # j => toLowerCase(objs[i].uuid) # toLowerCase(objs[j].uuid)

\* what a kind's own statements produce from the file
ExpectedOf(file, name) ==
    CASE name = "FavoritedTrack" -> FavoriteUuids(file.FavoritedTrack)
      [] name = "FavoritedShow" -> FavoriteUuids(file.FavoritedShow)
      [] name = "FavoritedSource" -> FavoriteSources(file.FavoritedSource)
      [] name = "FavoritedArtist" -> FavoriteUuids(file.FavoritedArtist)
      [] name = "OfflineTrack" ->
           aggregateBy(downloadedTracks(file.OfflineTrack), SourceUuidOf).value

OutputOf(data, name) ==
    CASE name = "FavoritedTrack" -> data.trackUuids
      [] name = "FavoritedShow" -> data.showUuids
      [] name = "FavoritedSource" -> data.sources
      [] name = "FavoritedArtist" -> data.artistUuids
      [] name = "OfflineTrack" -> data.offlineTracksBySource

\* the statements of this kind alone throw on this file
OwnReadFails(file, name) ==
    \/ ObjectsThrows(file, name)
    \/ /\ name = "OfflineTrack"
       /\ aggregateBy(downloadedTracks(file.OfflineTrack), SourceUuidOf).threw

FailingKinds(file) == {name \in Kinds : OwnReadFails(file, name)}

(***************************************************************************)
(* C1: when reading exactly one of the five kinds fails, every other       *)
(* kind's output collection in the success response holds exactly the      *)
(* normalized records of that kind in the store.                           *)
(***************************************************************************)
C1_IndependentExtraction ==
    (Success /\ Cardinality(FailingKinds(File)) = 1) =>
        \A name \in Kinds \ FailingKinds(File) :
            OutputOf(Data, name) = ExpectedOf(File, name)

(***************************************************************************)
(* C2: when the handler has returned, the handle was closed exactly once   *)
(* if one of the two opens succeeded, and never otherwise.                 *)
(***************************************************************************)
C2_ClosedExactlyOnce ==
    pc = "done" => Count("close") = (IF Opens > 0 THEN 1 ELSE 0)

(***************************************************************************)
(* C3: the schemaless open is attempted iff the full-schema open failed;   *)
(* the Unreadable response is chosen iff both opens failed; after a        *)
(* successful open the handler goes on with an open handle and never       *)
(* answers Unreadable.                                                     *)
(***************************************************************************)
C3_OpenProtocol ==
    LET fullFailed == Count("openFull:throws") > 0
        schemalessTried ==
            Count("openSchemaless") + Count("openSchemaless:throws") > 0
    IN /\ schemalessTried => fullFailed
       /\ (fullFailed /\ pc # "openSchemaless") => schemalessTried
       /\ (response = Some(UnreadableResponse)) <=>
              (fullFailed /\ Count("openSchemaless:throws") > 0)
       /\ Opens > 0 => response # Some(UnreadableResponse)
       /\ Opens > 0 => realm # "none"
       /\ pc \in {"schemaVersion", "extract", "close"} =>
              (Opens = 1 /\ realm = "open")
       /\ Count("openFull") + Count("openFull:throws") <= 1

\* both opens failed and the handler has returned Unreadable
C3_Witness ==
    /\ pc = "done"
    /\ response = Some(UnreadableResponse)
    /\ Count("openFull:throws") = 1
    /\ Count("openSchemaless:throws") = 1

(***************************************************************************)
(* C4 as claimed: in every success response trackUuids, showUuids and      *)
(* artistUuids are strictly ascending (sorted, no identifier twice).       *)
(***************************************************************************)
C4_SortedNoDuplicates ==
    Success =>
        /\ StrictSorted(Data.trackUuids)
        /\ StrictSorted(Data.showUuids)
        /\ StrictSorted(Data.artistUuids)

(***************************************************************************)
(* C4 amended: in every success response each of the three lists is in     *)
(* ascending order of the lowercased identifiers, and it has no            *)
(* identifier twice whenever no two stored primary keys of its kind are    *)
(* equal after lowercasing.                                                *)
(***************************************************************************)
C4_SortedAscending ==
    Success =>
        /\ NonStrictSorted(Data.trackUuids)
        /\ NonStrictSorted(Data.showUuids)
        /\ NonStrictSorted(Data.artistUuids)
        /\ CaseDistinct(File.FavoritedTrack) => StrictSorted(Data.trackUuids)
        /\ CaseDistinct(File.FavoritedShow) => StrictSorted(Data.showUuids)
        /\ CaseDistinct(File.FavoritedArtist) => StrictSorted(Data.artistUuids)

\* mixed-case identifiers stored in an order the output has to change
C4_Witness ==
    /\ Success
    /\ File.FavoritedTrack = <<[uuid |-> uB], [uuid |-> ua]>>
    /\ Data.trackUuids = <<ua, ub>>
    /\ File.FavoritedArtist = <<[uuid |-> uB], [uuid |-> uaB]>>
    /\ Len(Data.artistUuids) = 2

(***************************************************************************)
(* C5: in every success response a key of offlineTracksBySource is the     *)
(* lowercased source_uuid of some stored OfflineTrack with state 3, no key *)
(* maps to an empty list, and every listed record has state 3.             *)
(***************************************************************************)
C5_OnlyDownloaded ==
    Success =>
        LET m == Data.offlineTracksBySource
        IN \A k \in DOMAIN m :
              /\ \E i \in DOMAIN File.OfflineTrack :
                    /\ File.OfflineTrack[i].state = 3
                    /\ toLowerCase(File.OfflineTrack[i].source_uuid) = k
              /\ m[k] # <<>>
              /\ \A j \in DOMAIN m[k] : m[k][j].state = 3

\* a store with a downloaded and a not downloaded track, and a key in the output
C5_Witness ==
    /\ Success
    /\ \E i \in DOMAIN File.OfflineTrack : File.OfflineTrack[i].state # 3
    /\ DOMAIN Data.offlineTracksBySource = {us}
    /\ Len(Data.offlineTracksBySource[us]) = 1

(***************************************************************************)
(* C6: in every success response isEmpty is true iff the three uuid        *)
(* lists and sources are empty and offlineTracksBySource has no key.       *)
(***************************************************************************)
C6_IsEmptyIff ==
    Success =>
        (response[1].body.isEmpty <=>
            /\ Data.trackUuids = <<>>
            /\ Data.showUuids = <<>>
            /\ Data.artistUuids = <<>>
            /\ Data.sources = <<>>
            /\ DOMAIN Data.offlineTracksBySource = {})

\* only sources is non-empty, after a partial extraction
C6_Witness ==
    /\ Success
    /\ FailingKinds(File) # {}
    /\ Data.trackUuids = <<>>
    /\ Data.showUuids = <<>>
    /\ Data.artistUuids = <<>>
    /\ Data.sources # <<>>
    /\ DOMAIN Data.offlineTracksBySource = {}
    /\ ~response[1].body.isEmpty

OldSchema(file) ==
    /\ file.valid
    /\ "OfflineTrack" \notin file.tables
    /\ "OfflineSource" \notin file.tables
    /\ {"FavoritedTrack", "FavoritedShow", "FavoritedSource", "FavoritedArtist"}
           \subseteq file.tables

(***************************************************************************)
(* C7: for a database whose embedded schema lacks OfflineTrack and         *)
(* OfflineSource but has the four favorites tables, the full-schema open   *)
(* fails, the schemaless open succeeds, Unreadable is never answered, and  *)
(* unless an unexpected error is thrown the response is the 200 success    *)
(* response with all the favorites and an empty offlineTracksBySource.     *)
(***************************************************************************)
C7_OldSchemaStillExtracts ==
    (disk # None /\ OldSchema(File)) =>
        /\ pc # "openFull" => (Count("openFull:throws") = 1 /\ Count("openFull") = 0)
        /\ pc \notin {"openFull", "openSchemaless"} =>
               (Count("openSchemaless") = 1 /\ Count("openSchemaless:throws") = 0)
        /\ response # Some(UnreadableResponse)
        /\ (pc = "finally" /\ thrown = None) =>
               /\ response # None
               /\ response[1].status = 200
               /\ response[1].body.success
               /\ Data = [trackUuids |-> FavoriteUuids(File.FavoritedTrack),
                          showUuids |-> FavoriteUuids(File.FavoritedShow),
                          sources |-> FavoriteSources(File.FavoritedSource),
                          artistUuids |-> FavoriteUuids(File.FavoritedArtist),
                          offlineTracksBySource |-> EmptyMap,
                          schemaVersion |-> File.schemaVersion]

\* such a database with favorites of all four kinds, answered with 200
C7_Witness ==
    /\ Success
    /\ OldSchema(File)
    /\ Count("openFull:throws") = 1
    /\ Count("openSchemaless") = 1
    /\ Len(Data.trackUuids) = 2
    /\ Data.showUuids # <<>>
    /\ Data.sources # <<>>
    /\ Data.artistUuids # <<>>
    /\ DOMAIN Data.offlineTracksBySource = {}

C8_State ==
    /\ Unlinks <= 1
    /\ pc = "done" => Unlinks = (IF tempInputPath # None THEN 1 ELSE 0)
    /\ Unlinks > 0 => (pc = "done" /\ response # None)
    /\ \A i, j \in DOMAIN log :
          (i < j /\ log[i] \in {"unlink", "unlink:throws"}) => log[j] # "close"
    /\ form = "empty" =>
          /\ tempInputPath = None
          /\ disk = None
          /\ Count("write") + Count("write:throws") = 0
          /\ Unlinks = 0

(***************************************************************************)
(* C8: when a temporary path was assigned, the removal of the temporary    *)
(* file is attempted exactly once, as the handler's last call (after any   *)
(* close, with the response chosen, before it returns); the removal never  *)
(* changes the response; with no 'database' entry nothing is written and   *)
(* nothing is removed.                                                     *)
(***************************************************************************)
C8_TempFileRemoval ==
    /\ []C8_State
    /\ [][pc = "finally" => response' = response]_vars

\* the write itself failed: the removal is still attempted, fails, and the
\* 500 response stands
C8_Witness ==
    /\ pc = "done"
    /\ Count("write:throws") = 1
    /\ log[Len(log)] = "unlink:throws"
    /\ response[1].status = 500

(***************************************************************************)
(* C9: a form without a 'database' entry is answered with status 400 and   *)
(* error 'Database file is required', with no temporary file written and   *)
(* no open attempted.                                                      *)
(***************************************************************************)
C9_MissingInput ==
    form = "empty" =>
        /\ pc \in {"checkFile", "finally", "done"}
        /\ pc # "checkFile" =>
              /\ response # None
              /\ response[1].status = 400
              /\ response[1].body = [error |-> "Database file is required"]
        /\ log = <<>>
        /\ tempInputPath = None
        /\ disk = None
        /\ realm = "none"

C9_Witness ==
    /\ pc = "done"
    /\ form = "empty"
    /\ response = Some(MissingInputResponse)

OutsideFailures ==
    {"formData failed", "arrayBuffer failed", "write failed",
     "schemaVersion failed", "json failed"}

C10_State ==
    /\ pc \in {"finally", "done"} => response # None
    /\ response # None =>
          /\ response[1].status = 500 <=> thrown # None
          /\ response[1].status = 500 =>
                /\ thrown[1].message \in OutsideFailures
                /\ response[1].body =
                       [error |-> "Database parsing failed",
                        details |-> thrown[1].message]
          /\ (Opens > 0 /\ thrown = None) =>
                (response[1].status = 200 /\ response[1].body.success)
    /\ thrown # None => pc \in {"catch", "finally", "done"}

(***************************************************************************)
(* C10: after a successful open the response is 200 with success true      *)
(* unless an error is thrown outside the opens and the entity reads,       *)
(* also when entity reads fail; the 500 response is chosen exactly when    *)
(* such an error was thrown; every invocation returns one response, which  *)
(* is never replaced.                                                      *)
(***************************************************************************)
C10_ResponseKinds ==
    /\ []C10_State
    /\ [][response # None => response' = response]_vars

\* entity reads failed after a successful open, and the answer is still 200
C10_Witness ==
    /\ Success
    /\ \E name \in Kinds : ObjectsThrows(File, name)
    /\ response[1].body.success
    /\ Data.trackUuids # <<>>

\* the stored OfflineTrack records with state 3, normalized, in store order
StoredDownloaded(file) ==
    LET kept == SelectSeq(file.OfflineTrack, LAMBDA o : o.state = 3)
    IN [i \in DOMAIN kept |-> NormalizeOffline(kept[i])]

RECURSIVE SumOver(_, _)
SumOver(m, keys) ==
    IF keys = {} THEN 0
    ELSE LET k == CHOOSE x \in keys : TRUE
         IN Len(m[k]) + SumOver(m, keys \ {k})

(***************************************************************************)
(* C11: once the OfflineTrack table has been read, offlineTracksBySource   *)
(* is a stable partition of the stored records with state 3: its keys are  *)
(* their lowercased source_uuids, the list under a key is exactly the      *)
(* downloaded records with that lowercased source_uuid in store order,     *)
(* and the lists together have as many records as the store has            *)
(* downloaded ones.                                                        *)
(***************************************************************************)
C11_StablePartition ==
    (Success /\ Reached(File, "OfflineTrack")) =>
        LET m == Data.offlineTracksBySource
            dl == StoredDownloaded(File)
        IN /\ DOMAIN m = {dl[i].source_uuid : i \in DOMAIN dl}
           /\ \A k \in DOMAIN m :
                 m[k] = SelectSeq(dl, LAMBDA t : t.source_uuid = k)
           /\ SumOver(m, DOMAIN m) = Len(dl)

\* the file at the path holds the bytes the running invocation uploaded
\* whenever it opens a store on it or uses the handle
C12_OwnBytes ==
    pc \in {"openFull", "openSchemaless", "schemaVersion", "extract", "close"} =>
        (databaseBuffer # None /\ disk = databaseBuffer)

\* the snapshot in a 200 response is the extraction of the invocation's own
\* upload
OwnSnapshot(l) ==
    (l.response # None /\ l.response[1].status = 200) =>
        /\ l.databaseBuffer # None
        /\ l.response[1] =
             SuccessResponse(
                 ExtractData(l.databaseBuffer[1],
                             InitialData(l.databaseBuffer[1].schemaVersion)))

C12_OwnSnapshot ==
    /\ OwnSnapshot(Locals)
    /\ parked # None => OwnSnapshot(parked[1])

\* the running invocation has just written the file, or is about to remove
\* it, only when no other invocation has a handle open on it
C12_NoClobber ==
    /\ pc = "openFull" => holders \subseteq {self}
    /\ (pc = "finally" /\ tempInputPath # None /\ disk # None) =>
           holders \subseteq {self}

(***************************************************************************)
(* C12: two invocations that computed the same temporary path do not       *)
(* interfere under any interleaving at the awaits: each opens a store on   *)
(* a file holding exactly its own uploaded bytes, each snapshot is derived *)
(* from its own input only, and none overwrites or removes the temporary   *)
(* file while the other has an open handle on it.                          *)
(***************************************************************************)
C12_NoInterference ==
    /\ C12_OwnBytes
    /\ C12_OwnSnapshot
    /\ C12_NoClobber

====
